---- MODULE Spec2Model ----
(***************************************************************************)
(* Model of playlist_gen.py: the link parser (extract_video_id), the       *)
(* OAuth credential lifecycle (get_authenticated_service), the two API     *)
(* calls (create_playlist, add_video_to_playlist) and the sequential       *)
(* orchestration in main.  Text is modelled as sequences of one-character  *)
(* strings so that the regular expressions are evaluated character by      *)
(* character.                                                              *)
(***************************************************************************)
EXTENDS Integers, Sequences, FiniteSets, TLC

\* ------------------------------------------------------------------------
\* Bounds of the model
\* ------------------------------------------------------------------------
MaxLines == 3
MaxRuns == 2
MaxClock == 3

\* ------------------------------------------------------------------------
\* Text
\* ------------------------------------------------------------------------
Lower == {"a","b","c","d","e","f","g","h","i","j","k","l","m","n","o","p","q","r","s","t","u","v","w","x","y","z"}
Upper == {"A","B","C","D","E","F","G","H","I","J","K","L","M","N","O","P","Q","R","S","T","U","V","W","X","Y","Z"}
Digit == {"0","1","2","3","4","5","6","7","8","9"}

\* the character class [a-zA-Z0-9_-]
IdChars == Lower \cup Upper \cup Digit \cup {"_", "-"}

\* the repetition count {11}
IdLen == 11

\* characters removed by str.strip()
Whitespace == {" ", "\t", "\n", "\r"}

\* the absent value of a string-valued result (Python None, falsy like "")
NoMatch == <<>>

AltV == <<"v","=">>
AltShort == <<"y","o","u","t","u",".","b","e","/">>
AltEmbed == <<"e","m","b","e","d","/">>
AltVSlash == <<"v","/">>
AltWatch == <<"w","a","t","c","h","?","v","=">>
AltVideos == <<"/","v","i","d","e","o","s","/">>
AltShorts == <<"s","h","o","r","t","s","/">>

\* the alternation with the embed form left out
WatchAlternativesNoEmbed == <<AltV, AltShort, AltVSlash, AltWatch, AltVideos>>

\* the alternation (?:v=|youtu\.be\/|embed\/|v\/|watch\?v=|\/videos\/), in order
WatchAlternatives == <<AltV, AltShort, AltEmbed, AltVSlash, AltWatch, AltVideos>>

\* the single literal of the Shorts expression
ShortsAlternatives == <<AltShorts>>

\* the literal lit occurs in s starting at position p
LiteralAt(s, p, lit) ==
    /\ p + Len(lit) - 1 <= Len(s)
    /\ SubSeq(s, p, p + Len(lit) - 1) = lit

\* the group ([a-zA-Z0-9_-]{11}) matches in s starting at position p
GroupAt(s, p) ==
    /\ p + IdLen - 1 <= Len(s)
    /\ \A i \in p..(p + IdLen - 1) : s[i] \in IdChars

\* an attempt of the expression at position p: the alternatives are tried in
\* order, backtracking into the next one when the group fails
RECURSIVE MatchAt(_, _, _, _)
MatchAt(alts, s, p, k) ==
    IF k > Len(alts) THEN NoMatch
    ELSE IF LiteralAt(s, p, alts[k]) /\ GroupAt(s, p + Len(alts[k]))
         THEN SubSeq(s, p + Len(alts[k]), p + Len(alts[k]) + IdLen - 1)
         ELSE MatchAt(alts, s, p, k + 1)

\* re.search: the attempt is made at each position from the left; group(1) of
\* the first successful attempt, NoMatch when there is none
RECURSIVE SearchFrom(_, _, _)
SearchFrom(alts, s, p) ==
    IF p > Len(s) THEN NoMatch
    ELSE IF MatchAt(alts, s, p, 1) # NoMatch THEN MatchAt(alts, s, p, 1)
         ELSE SearchFrom(alts, s, p + 1)

re_search(alts, s) == SearchFrom(alts, s, 1)

extract_video_id(url) ==
    IF re_search(WatchAlternatives, url) # NoMatch
    THEN re_search(WatchAlternatives, url)
    ELSE re_search(ShortsAlternatives, url)

\* str.strip(): leading and trailing whitespace removed
RECURSIVE LStrip(_)
LStrip(s) == IF s # <<>> /\ Head(s) \in Whitespace THEN LStrip(Tail(s)) ELSE s

RECURSIVE RStrip(_)
RStrip(s) ==
    IF s # <<>> /\ s[Len(s)] \in Whitespace THEN RStrip(SubSeq(s, 1, Len(s) - 1)) ELSE s

strip(s) == RStrip(LStrip(s))

\* ------------------------------------------------------------------------
\* Configuration (module level of playlist_gen.py)
\* ------------------------------------------------------------------------
SCOPES == {"https://www.googleapis.com/auth/youtube.force-ssl"}

\* lifetime, in clock ticks, of an access token issued by the remote service
TokenLife == 2

\* ------------------------------------------------------------------------
\* Sample input lines
\* ------------------------------------------------------------------------
Scheme == <<"h","t","t","p","s",":","/","/">>
Host == <<"w","w","w",".","y","o","u","t","u","b","e",".","c","o","m","/">>
IdRick == <<"d","Q","w","4","w","9","W","g","X","c","Q">>
IdAbc == <<"a","b","c","1","2","3","4","5","6","7","8">>
NotAUrl == <<"n","o","t","-","a","-","u","r","l">>

LineShort == <<" ">> \o Scheme \o AltShort \o IdRick \o <<"\n">>
LineShorts == Scheme \o Host \o AltShorts \o IdAbc \o <<"\n">>
LineBad == NotAUrl \o <<"\n">>
LineBlank == <<" ", "\n">>

MainLines == {LineShort, LineShorts, LineBad, LineBlank}

RECURSIVE SeqsUpTo(_, _)
SeqsUpTo(S, n) ==
    IF n = 0 THEN {<<>>}
    ELSE SeqsUpTo(S, n - 1) \cup {Append(q, x) : q \in {r \in SeqsUpTo(S, n - 1) : Len(r) = n - 1}, x \in S}

\* ------------------------------------------------------------------------
\* Credentials and their file
\* ------------------------------------------------------------------------
\* the Python value None of the local variable credentials
NoCredentials == [present |-> FALSE, token |-> 0, refresh_token |-> FALSE, expiry |-> 0, scopes |-> {}]

AbsentFile == [kind |-> "absent", token |-> 0, refresh_token |-> FALSE, expiry |-> 0, scopes |-> {}]
CorruptFile == [kind |-> "corrupt", token |-> 0, refresh_token |-> FALSE, expiry |-> 0, scopes |-> {}]

\* a serialization that leaves the expiry out
to_json_without_expiry(c) ==
    [kind |-> "json", token |-> c.token, refresh_token |-> c.refresh_token,
     expiry |-> 0, scopes |-> c.scopes]

\* credentials.to_json(): the serialized record written to the file
to_json(c) ==
    [kind |-> "json", token |-> c.token, refresh_token |-> c.refresh_token,
     expiry |-> c.expiry, scopes |-> c.scopes]

\* Credentials.from_authorized_user_file(path, scopes) of a readable record
from_authorized_user_file(f, scopes) ==
    [present |-> TRUE, token |-> f.token, refresh_token |-> f.refresh_token,
     expiry |-> f.expiry, scopes |-> scopes]

\* credentials.expired at clock t
expired(c, t) == t >= c.expiry

\* credentials.valid at clock t
valid(c, t) == c.token # 0 /\ ~expired(c, t)

\* a load that keeps whatever an unreadable file yielded
LoadedCredentialsUnchecked(f) ==
    IF f.kind = "absent" THEN NoCredentials
    ELSE [present |-> TRUE, token |-> f.token, refresh_token |-> f.kind = "corrupt" \/ f.refresh_token,
          expiry |-> f.expiry, scopes |-> SCOPES]

\* lines 52-57: the value of credentials after the load attempt
LoadedCredentials(f) ==
    IF f.kind = "json" THEN from_authorized_user_file(f, SCOPES) ELSE NoCredentials

\* line 60 and line 69: not credentials or not credentials.valid
NeedsAuth(c, t) == ~c.present \/ ~valid(c, t)

\* line 61: credentials and credentials.expired and credentials.refresh_token
CanRefresh(c, t) == c.present /\ expired(c, t) /\ c.refresh_token

\* responses of playlistItems().insert as add_video_to_playlist tells them apart
AddResponses == {"ok", "notFound", "duplicate", "apiError"}

\* the return value of add_video_to_playlist for a response
add_video_to_playlist(resp) == resp = "ok"

\* ------------------------------------------------------------------------
\* State
\* ------------------------------------------------------------------------
VARIABLES
    linkFile,      \* yt_links.txt: [exists, lines]
    credFile,      \* config/credentials.json
    secretsFile,   \* config/client_secrets.json: "absent", "ok" or "malformed"
    now,           \* the clock
    run,           \* number of the current run of the script
    pc,            \* position of the run in main / get_authenticated_service
    lineNo,        \* next line of the link file to read
    video_ids,     \* main's list video_ids
    warnings,      \* number of skip warnings printed while reading
    credentials,   \* local credentials of get_authenticated_service
    auth,          \* how get_authenticated_service ended: pending/service/none/raised
    youtube,       \* the credentials the built service uses
    playlist_id,   \* main's playlist_id (0 = None)
    added_count,   \* main's added_count
    vidx,          \* position of the add loop in video_ids
    reported,      \* the two numbers of the final report line, <<>> before it
    outcome,       \* running / return / exception
    calls,         \* remote operations issued in this run, in order
    writes,        \* writes of the credential file in this run
    playlists,     \* number of playlists that exist on the remote service
    nextToken,     \* next access token the remote service issues
    startFile,     \* the credential file as it was when the run started
    savedCred      \* the credentials an earlier run saved last, NoCredentials if none did

vars == <<linkFile, credFile, secretsFile, now, run, pc, lineNo, video_ids, warnings,
          credentials, auth, youtube, playlist_id, added_count, vidx, reported, outcome,
          calls, writes, playlists, nextToken, startFile, savedCred>>

files == <<linkFile, secretsFile>>
readVars == <<lineNo, video_ids, warnings>>
addVars == <<playlist_id, added_count, vidx, reported>>
envVars == <<now, run, startFile, savedCred>>

\* a remote operation: what was asked and how the remote service answered
Call(op, playlist, video, resp) ==
    [op |-> op, playlist |-> playlist, video |-> video, resp |-> resp]

InitialCredFiles ==
    {AbsentFile, CorruptFile} \cup
    {[kind |-> "json", token |-> t, refresh_token |-> r, expiry |-> e, scopes |-> SCOPES] :
        t \in {0, 1}, r \in BOOLEAN, e \in {1, 1 + TokenLife}}

\* the state of a run that has not started
Fresh ==
    /\ pc = "start"
    /\ lineNo = 1
    /\ video_ids = <<>>
    /\ warnings = 0
    /\ credentials = NoCredentials
    /\ auth = "pending"
    /\ youtube = NoCredentials
    /\ playlist_id = 0
    /\ added_count = 0
    /\ vidx = 1
    /\ reported = <<>>
    /\ outcome = "running"
    /\ calls = <<>>
    /\ writes = 0

InitWith(lineSets, maxLines) ==
    /\ linkFile \in {[exists |-> FALSE, lines |-> <<>>]} \cup
                    {[exists |-> TRUE, lines |-> ls] : ls \in SeqsUpTo(lineSets, maxLines)}
    /\ credFile \in InitialCredFiles
    /\ secretsFile \in {"absent", "ok", "malformed"}
    /\ now = 1
    /\ run = 1
    /\ playlists = 0
    /\ nextToken = 2
    /\ startFile = credFile
    /\ savedCred = NoCredentials
    /\ Fresh

Init == InitWith(MainLines, MaxLines)

\* ------------------------------------------------------------------------
\* main, step 1: read the link file
\* ------------------------------------------------------------------------
\* lines 181-184
MainStart ==
    /\ pc = "start"
    /\ IF linkFile.exists
       THEN pc' = "read" /\ outcome' = outcome
       ELSE pc' = "done" /\ outcome' = "return"
    /\ UNCHANGED <<files, credFile, envVars, readVars, credentials, auth, youtube, addVars,
                   calls, writes, playlists, nextToken>>

\* a read loop that warns about blank lines too
ReadLineWarnsOnBlank ==
    /\ pc = "read"
    /\ lineNo <= Len(linkFile.lines)
    /\ LET url == strip(linkFile.lines[lineNo])
           video_id == extract_video_id(url)
       IN IF video_id # NoMatch
          THEN video_ids' = Append(video_ids, video_id) /\ warnings' = warnings
          ELSE video_ids' = video_ids /\ warnings' = warnings + 1
    /\ lineNo' = lineNo + 1
    /\ UNCHANGED <<files, credFile, envVars, pc, credentials, auth, youtube, addVars, outcome,
                   calls, writes, playlists, nextToken>>

\* a read loop that drops an identifier it has already collected
ReadLineDedup ==
    /\ pc = "read"
    /\ lineNo <= Len(linkFile.lines)
    /\ LET url == strip(linkFile.lines[lineNo])
           video_id == extract_video_id(url)
       IN IF url # <<>>
          THEN IF video_id # NoMatch
               THEN /\ video_ids' = IF \E i \in 1..Len(video_ids) : video_ids[i] = video_id
                                     THEN video_ids ELSE Append(video_ids, video_id)
                    /\ warnings' = warnings
               ELSE video_ids' = video_ids /\ warnings' = warnings + 1
          ELSE video_ids' = video_ids /\ warnings' = warnings
    /\ lineNo' = lineNo + 1
    /\ UNCHANGED <<files, credFile, envVars, pc, credentials, auth, youtube, addVars, outcome,
                   calls, writes, playlists, nextToken>>

\* lines 187-194: one iteration of the loop over the lines of the file
ReadLine ==
    /\ pc = "read"
    /\ lineNo <= Len(linkFile.lines)
    /\ LET url == strip(linkFile.lines[lineNo])
           video_id == extract_video_id(url)
       IN IF url # <<>>
          THEN IF video_id # NoMatch
               THEN video_ids' = Append(video_ids, video_id) /\ warnings' = warnings
               ELSE video_ids' = video_ids /\ warnings' = warnings + 1
          ELSE video_ids' = video_ids /\ warnings' = warnings
    /\ lineNo' = lineNo + 1
    /\ UNCHANGED <<files, credFile, envVars, pc, credentials, auth, youtube, addVars, outcome,
                   calls, writes, playlists, nextToken>>

\* a check that lets an empty list through
CheckVideoIdsUnguarded ==
    /\ pc = "read"
    /\ lineNo > Len(linkFile.lines)
    /\ pc' = "load"
    /\ UNCHANGED <<files, credFile, envVars, readVars, credentials, auth, youtube, addVars,
                   outcome, calls, writes, playlists, nextToken>>

\* lines 196-200: the loop is over
CheckVideoIds ==
    /\ pc = "read"
    /\ lineNo > Len(linkFile.lines)
    /\ IF video_ids = <<>>
       THEN pc' = "done" /\ outcome' = "return"
       ELSE pc' = "load" /\ outcome' = outcome
    /\ UNCHANGED <<files, credFile, envVars, readVars, credentials, auth, youtube, addVars,
                   calls, writes, playlists, nextToken>>

\* ------------------------------------------------------------------------
\* get_authenticated_service (called at line 203)
\* ------------------------------------------------------------------------
\* lines 49-61: load the stored credentials and decide what they need
LoadCredentials ==
    /\ pc = "load"
    /\ credentials' = LoadedCredentials(credFile)
    /\ pc' = IF ~NeedsAuth(credentials', now) THEN "build"
             ELSE IF CanRefresh(credentials', now) THEN "refresh"
             ELSE "flow"
    /\ UNCHANGED <<files, credFile, envVars, readVars, auth, youtube, addVars, outcome,
                   calls, writes, playlists, nextToken>>

\* a successful refresh whose credentials are used without being saved
RefreshSucceedsUnsaved ==
    /\ pc = "refresh"
    /\ credentials' = [credentials EXCEPT !.token = nextToken, !.expiry = now + TokenLife]
    /\ nextToken' = nextToken + 1
    /\ calls' = Append(calls, Call("refresh", 0, NoMatch, "ok"))
    /\ pc' = IF NeedsAuth(credentials', now) THEN "flow" ELSE "build"
    /\ UNCHANGED <<files, credFile, envVars, readVars, auth, youtube, addVars, outcome,
                   writes, playlists>>

\* lines 62-64: the refresh request succeeds and the credentials carry a new token
RefreshSucceeds ==
    /\ pc = "refresh"
    /\ credentials' = [credentials EXCEPT !.token = nextToken, !.expiry = now + TokenLife]
    /\ nextToken' = nextToken + 1
    /\ calls' = Append(calls, Call("refresh", 0, NoMatch, "ok"))
    /\ pc' = IF NeedsAuth(credentials', now) THEN "flow" ELSE "save"
    /\ UNCHANGED <<files, credFile, envVars, readVars, auth, youtube, addVars, outcome,
                   writes, playlists>>

\* lines 65-67: the refresh request raises and the credentials are dropped
RefreshFails ==
    /\ pc = "refresh"
    /\ credentials' = NoCredentials
    /\ calls' = Append(calls, Call("refresh", 0, NoMatch, "error"))
    /\ pc' = "flow"
    /\ UNCHANGED <<files, credFile, envVars, readVars, auth, youtube, addVars, outcome,
                   writes, playlists, nextToken>>

\* lines 72-76 and 204-206: no client secrets file, None is returned and main returns
FlowConfigMissing ==
    /\ pc = "flow"
    /\ secretsFile = "absent"
    /\ auth' = "none"
    /\ pc' = "done"
    /\ outcome' = "return"
    /\ UNCHANGED <<files, credFile, envVars, readVars, credentials, youtube, addVars,
                   calls, writes, playlists, nextToken>>

\* lines 78-79: from_client_secrets_file raises on an unreadable client secrets
\* file; no handler encloses the call, the exception leaves main (line 249)
FlowConfigMalformed ==
    /\ pc = "flow"
    /\ secretsFile = "malformed"
    /\ auth' = "raised"
    /\ pc' = "done"
    /\ outcome' = "exception"
    /\ UNCHANGED <<files, credFile, envVars, readVars, credentials, youtube, addVars,
                   calls, writes, playlists, nextToken>>

\* lines 83-84: the interactive flow returns new credentials
FlowSucceeds ==
    /\ pc = "flow"
    /\ secretsFile = "ok"
    /\ \E r \in BOOLEAN :
          credentials' = [present |-> TRUE, token |-> nextToken, refresh_token |-> r,
                          expiry |-> now + TokenLife, scopes |-> SCOPES]
    /\ nextToken' = nextToken + 1
    /\ calls' = Append(calls, Call("flow", 0, NoMatch, "ok"))
    /\ pc' = "save"
    /\ UNCHANGED <<files, credFile, envVars, readVars, auth, youtube, addVars, outcome,
                   writes, playlists>>

\* lines 85-88 and 204-206: the interactive flow raises, None is returned
FlowAborted ==
    /\ pc = "flow"
    /\ secretsFile = "ok"
    /\ calls' = Append(calls, Call("flow", 0, NoMatch, "error"))
    /\ auth' = "none"
    /\ pc' = "done"
    /\ outcome' = "return"
    /\ UNCHANGED <<files, credFile, envVars, readVars, credentials, youtube, addVars,
                   writes, playlists, nextToken>>

\* lines 90-93: the credentials are written to the credential file
SaveCredentials ==
    /\ pc = "save"
    /\ credFile' = to_json(credentials)
    /\ writes' = writes + 1
    /\ pc' = "build"
    /\ UNCHANGED <<files, envVars, readVars, credentials, auth, youtube, addVars, outcome,
                   calls, playlists, nextToken>>

\* line 95: the service is built on the credentials and returned
BuildService ==
    /\ pc = "build"
    /\ youtube' = credentials
    /\ auth' = "service"
    /\ pc' = "create"
    /\ UNCHANGED <<files, credFile, envVars, readVars, credentials, addVars, outcome,
                   calls, writes, playlists, nextToken>>

\* ------------------------------------------------------------------------
\* main, steps 3 and 4
\* ------------------------------------------------------------------------
\* lines 127-134 and 209: the playlist is created and its identifier returned
CreatePlaylistSucceeds ==
    /\ pc = "create"
    /\ playlists' = playlists + 1
    /\ playlist_id' = playlists'
    /\ calls' = Append(calls, Call("create", playlists', NoMatch, "ok"))
    /\ pc' = "add"
    /\ UNCHANGED <<files, credFile, envVars, readVars, credentials, auth, youtube,
                   added_count, vidx, reported, outcome, writes, nextToken>>

\* a failed creation after which main goes on to the add loop
CreatePlaylistFailsContinues ==
    /\ pc = "create"
    /\ calls' = Append(calls, Call("create", 0, NoMatch, "error"))
    /\ pc' = "add"
    /\ UNCHANGED <<files, credFile, envVars, readVars, credentials, auth, youtube, addVars,
                   outcome, writes, playlists, nextToken>>

\* lines 135-140 and 210-212: the request fails, None is returned and main returns
CreatePlaylistFails ==
    /\ pc = "create"
    /\ calls' = Append(calls, Call("create", 0, NoMatch, "error"))
    /\ pc' = "done"
    /\ outcome' = "return"
    /\ UNCHANGED <<files, credFile, envVars, readVars, credentials, auth, youtube, addVars,
                   writes, playlists, nextToken>>

\* an add loop that stops at the first video that could not be added
AddVideoHaltsOnFailure ==
    /\ pc = "add"
    /\ vidx <= Len(video_ids)
    /\ \E resp \in AddResponses :
          /\ calls' = Append(calls, Call("add", playlist_id, video_ids[vidx], resp))
          /\ added_count' = IF add_video_to_playlist(resp) THEN added_count + 1
                            ELSE added_count
          /\ vidx' = IF add_video_to_playlist(resp) THEN vidx + 1 ELSE Len(video_ids) + 1
    /\ UNCHANGED <<files, credFile, envVars, readVars, credentials, auth, youtube,
                   playlist_id, reported, pc, outcome, writes, playlists, nextToken>>

\* lines 217-219 with 142-174: one iteration of the add loop
AddVideo ==
    /\ pc = "add"
    /\ vidx <= Len(video_ids)
    /\ \E resp \in AddResponses :
          /\ calls' = Append(calls, Call("add", playlist_id, video_ids[vidx], resp))
          /\ added_count' = IF add_video_to_playlist(resp) THEN added_count + 1
                            ELSE added_count
    /\ vidx' = vidx + 1
    /\ UNCHANGED <<files, credFile, envVars, readVars, credentials, auth, youtube,
                   playlist_id, reported, pc, outcome, writes, playlists, nextToken>>

\* lines 221-222: the loop is over, the counts are reported and main returns
Report ==
    /\ pc = "add"
    /\ vidx > Len(video_ids)
    /\ reported' = <<added_count, Len(video_ids)>>
    /\ pc' = "done"
    /\ outcome' = "return"
    /\ UNCHANGED <<files, credFile, envVars, readVars, credentials, auth, youtube,
                   playlist_id, added_count, vidx, calls, writes, playlists, nextToken>>

\* ------------------------------------------------------------------------
\* Specifications
\* ------------------------------------------------------------------------
Authenticate ==
    \/ LoadCredentials
    \/ RefreshSucceeds
    \/ RefreshFails
    \/ FlowConfigMissing
    \/ FlowConfigMalformed
    \/ FlowSucceeds
    \/ FlowAborted
    \/ SaveCredentials
    \/ BuildService

Next ==
    \/ MainStart
    \/ ReadLine
    \/ CheckVideoIds
    \/ Authenticate
    \/ CreatePlaylistSucceeds
    \/ CreatePlaylistFails
    \/ AddVideo
    \/ Report

\* one run of the script on every link file of up to MaxLines sample lines
Spec == Init /\ [][Next]_vars

\* the script is started again: the files and the remote service keep their
\* state, the clock may have advanced, everything else starts afresh
Restart ==
    /\ pc = "done"
    /\ run < MaxRuns
    /\ run' = run + 1
    /\ now' \in now..MaxClock
    /\ startFile' = credFile
    /\ savedCred' = IF writes > 0 THEN credentials ELSE savedCred
    /\ pc' = "start"
    /\ lineNo' = 1
    /\ video_ids' = <<>>
    /\ warnings' = 0
    /\ credentials' = NoCredentials
    /\ auth' = "pending"
    /\ youtube' = NoCredentials
    /\ playlist_id' = 0
    /\ added_count' = 0
    /\ vidx' = 1
    /\ reported' = <<>>
    /\ outcome' = "running"
    /\ calls' = <<>>
    /\ writes' = 0
    /\ UNCHANGED <<files, credFile, playlists, nextToken>>

RunLines == {LineShort, LineBad}

InitRuns == InitWith(RunLines, 1)

NextRuns == Next \/ Restart

\* up to MaxRuns successive runs of the script over the same files
SpecRuns == InitRuns /\ [][NextRuns]_vars

\* ------------------------------------------------------------------------
\* Input lines for the link parser
\* ------------------------------------------------------------------------
ListParam == <<"l","i","s","t","=">>
IdMixed == <<"a","_","-","1","2","3","4","5","6","7","v">>
IdBroken == <<"d","Q","w","4","w",".","W","g","X","c","Q">>

ParseMarkers ==
    {AltV, AltShort, AltEmbed, AltVSlash, AltWatch, AltVideos, AltShorts, ListParam, <<>>}

ParseBodies ==
    {IdRick, IdMixed, SubSeq(IdRick, 1, IdLen - 1), IdAbc \o <<"Z">>, IdBroken, <<>>}

\* surrounding whitespace of a line: none, or a leading space and the newline
ParsePads == {<< <<>>, <<>> >>, << <<" ">>, <<"\n">> >>}

\* lines built as [space] [scheme host] marker body [&] marker body [newline]
ParseLines ==
    {pad[1] \o pre \o m1 \o b1 \o mid \o m2 \o b2 \o pad[2] :
        pad \in ParsePads, pre \in {<<>>, Scheme \o Host},
        m1 \in ParseMarkers, b1 \in ParseBodies, mid \in {<<>>, <<"&">>},
        m2 \in ParseMarkers, b2 \in ParseBodies}

InitParse ==
    /\ linkFile \in {[exists |-> TRUE, lines |-> <<l>>] : l \in ParseLines}
    /\ credFile = AbsentFile
    /\ secretsFile = "ok"
    /\ now = 1
    /\ run = 1
    /\ playlists = 0
    /\ nextToken = 2
    /\ startFile = credFile
    /\ savedCred = NoCredentials
    /\ Fresh

NextParse == MainStart \/ ReadLine

\* the read loop of main applied to every one-line file of ParseLines
SpecParse == InitParse /\ [][NextParse]_vars

\* ------------------------------------------------------------------------
\* What a line is expected to yield, stated on the text of the line
\* ------------------------------------------------------------------------
\* the six literals of the first expression and the literal of the second
WatchMarkers == {AltV, AltShort, AltEmbed, AltVSlash, AltWatch, AltVideos}
ShortsMarkers == {AltShorts}

\* marker m stands at position p of s and IdLen identifier characters follow it
Occurs(s, p, m) ==
    /\ p + Len(m) + IdLen - 1 <= Len(s)
    /\ \A i \in 1..Len(m) : s[p + i - 1] = m[i]
    /\ \A j \in 1..IdLen : s[p + Len(m) + j - 1] \in IdChars

IdAfter(s, p, m) == [j \in 1..IdLen |-> s[p + Len(m) + j - 1]]

OccursAny(s, p, ms) == \E m \in ms : Occurs(s, p, m)

\* the positions of s where a marker of ms occurs
Positions(s, ms) == {p \in 1..Len(s) : OccursAny(s, p, ms)}

HasOccurrence(s, ms) == Positions(s, ms) # {}

\* the identifier after the leftmost occurrence in s of a marker of ms
LeftmostId(s, ms) ==
    LET ps == Positions(s, ms)
        p == CHOOSE q \in ps : \A r \in ps : q <= r
        m == CHOOSE x \in ms : Occurs(s, p, x)
    IN IdAfter(s, p, m)

IsBlank(s) == \A i \in 1..Len(s) : s[i] \in Whitespace

IsValidLine(s) == HasOccurrence(s, WatchMarkers \cup ShortsMarkers)

ExpectedId(s) ==
    IF HasOccurrence(s, WatchMarkers) THEN LeftmostId(s, WatchMarkers)
    ELSE LeftmostId(s, ShortsMarkers)

\* what each sample line of the link file is expected to yield
LineTable ==
    [l \in MainLines |->
        [valid |-> IsValidLine(l),
         blank |-> IsBlank(l),
         id |-> IF IsValidLine(l) THEN ExpectedId(l) ELSE NoMatch]]

\* the identifiers of the valid lines of a file, in file order
RECURSIVE ExpectedIds(_)
ExpectedIds(ls) ==
    IF ls = <<>> THEN <<>>
    ELSE IF LineTable[Head(ls)].valid
         THEN <<LineTable[Head(ls)].id>> \o ExpectedIds(Tail(ls))
         ELSE ExpectedIds(Tail(ls))

\* the number of valid lines of a file
NumValid(ls) == Cardinality({i \in 1..Len(ls) : LineTable[ls[i]].valid})

\* the number of lines of a file that are neither blank nor valid
NumInvalid(ls) ==
    Cardinality({i \in 1..Len(ls) : ~LineTable[ls[i]].blank /\ ~LineTable[ls[i]].valid})

\* the one line of a one-line link file, once the read loop has passed it
ParsedLine == linkFile.lines[1]
LineWasRead == linkFile.exists /\ Len(linkFile.lines) = 1 /\ pc = "read" /\ lineNo = 2

\* C8 (as amended): the parser returns the identifier after the leftmost
\* occurrence in the line of any of v=, youtu.be/, embed/, v/, watch?v=, /videos/
\* that is followed by 11 identifier characters; if there is none, the identifier
\* after the leftmost shorts/ followed by 11 identifier characters; and no match
\* exactly when none of the seven patterns is followed by 11 identifier
\* characters, so only such identifiers enter video_ids.
C8_ExtractLeftmost ==
    LineWasRead =>
        /\ (video_ids = <<>>) <=> ~HasOccurrence(ParsedLine, WatchMarkers \cup ShortsMarkers)
        /\ HasOccurrence(ParsedLine, WatchMarkers) =>
               video_ids = <<LeftmostId(ParsedLine, WatchMarkers)>>
        /\ (~HasOccurrence(ParsedLine, WatchMarkers) /\ HasOccurrence(ParsedLine, ShortsMarkers)) =>
               video_ids = <<LeftmostId(ParsedLine, ShortsMarkers)>>
        /\ \A i \in 1..Len(video_ids) :
               /\ Len(video_ids[i]) = IdLen
               /\ \E p \in 1..Len(ParsedLine) : \E m \in WatchMarkers \cup ShortsMarkers :
                      Occurs(ParsedLine, p, m) /\ video_ids[i] = IdAfter(ParsedLine, p, m)

\* a line holding a shorts/ identifier and, after it, a v= identifier was read:
\* the later v= identifier is the one returned
C8_Witness ==
    /\ LineWasRead
    /\ ParsedLine = <<" ">> \o Scheme \o Host \o AltShorts \o IdRick \o <<"&">> \o AltV \o IdMixed \o <<"\n">>
    /\ video_ids = <<IdMixed>>

\* the four URL shapes the claim names, in the order it states them
ClaimedShapes == <<AltV, AltShort, AltEmbed, AltShorts>>

RECURSIVE FirstShapeId(_, _)
FirstShapeId(s, k) ==
    IF k > Len(ClaimedShapes) THEN NoMatch
    ELSE IF HasOccurrence(s, {ClaimedShapes[k]}) THEN LeftmostId(s, {ClaimedShapes[k]})
         ELSE FirstShapeId(s, k + 1)

\* C8 (as stated): the parser returns the identifier of the first of the four
\* shapes watch, short-link, embed, shorts that matches, in that order, and no
\* match for every line without one of these four shapes.
C8_Original ==
    LineWasRead =>
        video_ids = (IF FirstShapeId(ParsedLine, 1) = NoMatch THEN <<>>
                     ELSE <<FirstShapeId(ParsedLine, 1)>>)

\* ------------------------------------------------------------------------
\* The run seen through its remote operations
\* ------------------------------------------------------------------------
CallsOf(op) == SelectSeq(calls, LAMBDA c : c.op = op)
AddCalls == CallsOf("add")
Issued(op) == \E i \in 1..Len(calls) : calls[i].op = op
Reading == pc \in {"start", "read"}
AddedOk == {i \in 1..Len(AddCalls) : AddCalls[i].resp = "ok"}

\* C1: a failed addItem (NotFound, Duplicate or any other error) never halts the
\* add loop: every video of the list gets its addItem call, in order, and the
\* reported added count is exactly the number of addItem calls that succeeded.
C1_AddLoopContinues ==
    /\ pc = "add" =>
          /\ Len(AddCalls) = vidx - 1
          /\ added_count = Cardinality(AddedOk)
    /\ (pc = "done" /\ playlist_id # 0) =>
          /\ reported # <<>>
          /\ Len(AddCalls) = Len(video_ids)
          /\ \A i \in 1..Len(video_ids) : AddCalls[i].video = video_ids[i]
          /\ reported[1] = Cardinality(AddedOk)

\* a run reported one added video after a NotFound and a Duplicate response
C1_Witness ==
    /\ reported = <<1, 3>>
    /\ Len(AddCalls) = 3
    /\ AddCalls[1].resp = "notFound"
    /\ AddCalls[2].resp = "duplicate"
    /\ AddCalls[3].resp = "ok"

\* C2: when the link file yields no valid identifier the run returns before
\* any network call: no refresh, no interactive flow, no createPlaylist, no
\* addItem, and the credential file is not written.
C2_NoInputNoNetwork ==
    (~Reading /\ video_ids = <<>>) =>
        /\ pc = "done"
        /\ outcome = "return"
        /\ auth = "pending"
        /\ calls = <<>>
        /\ writes = 0
        /\ credFile = startFile
        /\ playlists = 0

\* a run over a file of blank and unparsable lines only has returned, with a
\* refreshable credential file and client secrets at hand
C2_Witness ==
    /\ pc = "done"
    /\ linkFile.lines = <<LineBlank, LineBad, LineBad>>
    /\ warnings = 2
    /\ secretsFile = "ok"
    /\ credFile.kind = "json" /\ credFile.refresh_token /\ credFile.expiry = 1

\* C3: of a link file with N valid and M invalid lines (blank lines ignored,
\* whitespace trimmed) exactly N identifiers are collected and M skip warnings
\* printed; when authentication and playlist creation succeed exactly N addItem
\* calls are made and the reported total is N.
C3_Counts ==
    (linkFile.exists /\ ~Reading) =>
        LET N == NumValid(linkFile.lines)
            M == NumInvalid(linkFile.lines)
        IN /\ Len(video_ids) = N
           /\ warnings = M
           /\ reported # <<>> => (Len(AddCalls) = N /\ reported[2] = N)

\* the example of the specification, with a blank line: two valid lines, one
\* invalid line, and the run reported a total of two
C3_Witness ==
    /\ linkFile.lines = <<LineShort, LineBad, LineShorts>>
    /\ video_ids = <<IdRick, IdAbc>>
    /\ warnings = 1
    /\ reported # <<>> /\ reported[2] = 2
    /\ Len(AddCalls) = 2

\* C4: after authentication fails with ConfigMissing or FlowAborted the run has
\* returned, neither createPlaylist nor addItem was issued and the credential
\* file is unchanged; after createPlaylist fails the run has returned and no
\* addItem was issued; and no operation of a run removes a playlist: the
\* playlists on the remote service are those the successful creations made.
C4_FatalStopsRun ==
    /\ auth = "none" =>
          /\ pc = "done" /\ outcome = "return"
          /\ ~Issued("create") /\ ~Issued("add")
          /\ credFile = startFile /\ writes = 0
    /\ (\E i \in 1..Len(calls) : calls[i].op = "create" /\ calls[i].resp # "ok") =>
          /\ pc = "done" /\ outcome = "return"
          /\ ~Issued("add")
          /\ playlist_id = 0 /\ reported = <<>>
    /\ \A i \in 1..Len(calls) : calls[i].op \in {"refresh", "flow", "create", "add"}
    /\ playlists = Cardinality({i \in 1..Len(calls) : calls[i].op = "create" /\ calls[i].resp = "ok"})

\* createPlaylist failed after a refreshed credential had been saved
C4_Witness ==
    /\ pc = "done"
    /\ Len(calls) = 2
    /\ calls[1] = Call("refresh", 0, NoMatch, "ok")
    /\ calls[2] = Call("create", 0, NoMatch, "error")
    /\ writes = 1
    /\ Len(video_ids) = 3

\* C5: in every execution of get_authenticated_service there is at most one
\* refresh attempt and at most one interactive flow, the refresh precedes the
\* flow, after a failed refresh the credentials are None and the flow is next,
\* and the call ends either with the service returned or with None returned.
C5_AuthenticatorTerminates ==
    /\ Len(CallsOf("refresh")) <= 1
    /\ Len(CallsOf("flow")) <= 1
    /\ \A i, j \in 1..Len(calls) :
          (calls[i].op = "refresh" /\ calls[j].op = "flow") => i < j
    /\ (pc = "flow" /\ calls # <<>>) =>
          (calls = <<Call("refresh", 0, NoMatch, "error")>> /\ credentials = NoCredentials)
    /\ auth \in {"pending", "service", "none"}
    /\ (pc = "done" /\ video_ids # <<>>) => auth \in {"service", "none"}

\* C6 (as amended): whenever the Authenticator succeeds after a silent refresh
\* or an interactive flow, the credential file was written once, before the
\* service was built, and holds the serialization of the credential the service
\* uses; when the credential is already valid on load, the file is not written
\* and stays as it was loaded.
C6_SavedAfterRefreshOrFlow ==
    /\ (pc = "build" /\ calls # <<>>) =>
          /\ writes = 1
          /\ credFile = to_json(credentials)
    /\ (auth = "service" /\ (Issued("refresh") \/ Issued("flow"))) =>
          /\ writes = 1
          /\ credFile = to_json(youtube)
    /\ (auth = "service" /\ ~Issued("refresh") /\ ~Issued("flow")) =>
          /\ writes = 0
          /\ credFile = startFile
          /\ youtube = LoadedCredentials(startFile)

\* the service was returned after a successful silent refresh
C6_Witness ==
    /\ auth = "service"
    /\ calls = <<Call("refresh", 0, NoMatch, "ok")>>
    /\ startFile.kind = "json" /\ startFile.token = 1
    /\ credFile.token = 2 /\ credFile.expiry = now + TokenLife
    /\ youtube.token = 2

\* C6 (as stated): on every success path, a credential valid on load included,
\* the credential file is written with the credential of the returned service.
C6_Original ==
    auth = "service" =>
        /\ writes >= 1
        /\ credFile = to_json(youtube)

\* C7: a credential file that cannot be loaded does not fail the run: the
\* credentials are None after the load as with an absent file, no refresh is
\* attempted, the interactive flow is next, and when the flow succeeds the
\* corrupt file is replaced by the serialization of the new credential.
C7_CorruptFileRecovered ==
    startFile.kind = "corrupt" =>
        /\ ~Issued("refresh") /\ pc # "refresh"
        /\ pc = "flow" => (credentials = NoCredentials /\ calls = <<>> /\ outcome = "running")
        /\ (~Reading /\ pc # "load" /\ video_ids # <<>>) =>
              \/ pc = "flow"
              \/ Issued("flow")
              \/ (pc = "done" /\ secretsFile # "ok" /\ calls = <<>>)
        /\ \A o \in {"absent", "ok"} :
              (pc = "done" /\ secretsFile = o) => outcome = "return"
        /\ auth = "service" =>
              /\ calls[1] = Call("flow", 0, NoMatch, "ok")
              /\ writes = 1
              /\ credFile.kind = "json"
              /\ credFile = to_json(youtube)

\* a run that started with a corrupt credential file returned the service of a
\* new credential and the file now holds that credential
C7_Witness ==
    /\ startFile = CorruptFile
    /\ auth = "service"
    /\ credFile.kind = "json" /\ credFile.token = 2
    /\ reported # <<>>

\* C10: at most one createPlaylist is issued, after the service was returned
\* and after every authentication request; every addItem follows the successful
\* createPlaylist and carries the identifier it returned; the addItem calls
\* follow the valid lines of the file in order, one call per valid line, a
\* repeated identifier being added again each time.
C10_Ordering ==
    /\ Len(CallsOf("create")) <= 1
    /\ \A i \in 1..Len(calls) :
          calls[i].op = "create" =>
              /\ auth = "service"
              /\ \A j \in 1..(i - 1) : calls[j].op \in {"refresh", "flow"}
              /\ \A j \in (i + 1)..Len(calls) : calls[j].op = "add"
    /\ \A j \in 1..Len(calls) :
          calls[j].op = "add" =>
              \E i \in 1..(j - 1) :
                  /\ calls[i].op = "create" /\ calls[i].resp = "ok"
                  /\ calls[i].playlist # 0
                  /\ calls[j].playlist = calls[i].playlist
    /\ linkFile.exists =>
          LET ids == ExpectedIds(linkFile.lines)
          IN /\ Len(AddCalls) <= Len(ids)
             /\ \A k \in 1..Len(AddCalls) : AddCalls[k].video = ids[k]
             /\ reported # <<>> => Len(AddCalls) = Len(ids)

\* a run over a file naming one video twice, around another, made three addItem
\* calls in file order on the created playlist
C10_Witness ==
    /\ reported # <<>>
    /\ linkFile.lines = <<LineShort, LineShorts, LineShort>>
    /\ Len(calls) = 5
    /\ calls[1].op = "flow" /\ calls[2].op = "create"
    /\ calls[3].video = IdRick /\ calls[4].video = IdAbc /\ calls[5].video = IdRick
    /\ \A k \in 3..5 : calls[k].playlist = 1

====
